---- MODULE Spec2Model ----
(***************************************************************************)
(* Model of the withdrawal script of private-treasury: the async main      *)
(* routine and the functions it calls (getDepositHistory,                  *)
(* checkLeafOwnership, reconstructMerkleTree, genGroth16Proof,             *)
(* proveSanityCheck, sendProofTx), with the contract, the Leaf class, the  *)
(* incremental Merkle tree and the groth16 engine as collaborators.        *)
(***************************************************************************)
EXTENDS Integers, Sequences, FiniteSets, TLC

(***************************************************************************)
(* Bounds of the model.                                                    *)
(***************************************************************************)
MaxHistory == 3
HashMod == 251
MaxReplays == 3

(***************************************************************************)
(* Program constants.                                                      *)
(***************************************************************************)
LEAF_IDX == 1
TREE_DEPTH == 32
NOTHING_UP_MY_SLEEVE == 7

\* ownedLeaves[LEAF_IDX] when the array is shorter than LEAF_IDX + 1, and
\* leafHistory[undefined]: the JavaScript value undefined.
undefined == 0 - 1

VARIABLES
    pc,             \* position of the main routine
    events,         \* NewLeaf events emitted by the contract so far
    treasuryPriv,   \* process.env.TREASURY_PRIVKEY
    vKeyOk,         \* VERIF_KEY on disk belongs to PROV_KEY
    leafHistory,    \* main: leafHistory
    leafHashes,     \* main: leafHashes
    ownedLeaves,    \* main: ownedLeaves (0-based indices)
    tree,           \* main: tree
    rootSame,       \* the comparison logged by reconstructMerkleTree
    merkleProof,    \* main: merkleProof
    proveInput,     \* the witness object handed to groth16.fullProve
    proof,          \* main: proof
    publicSignals,  \* main: publicSignals
    verifyRes,      \* result of groth16.verify: "none", "true", "false"
    calls,          \* functions and external calls entered, in order
    withdrawCalls,  \* arguments of each privateTreasury.withdraw call
    exitCode,       \* "running", "0" or "unhandledRejection"
    err,            \* the call whose rejection ended the routine, or "none"
    roots           \* roots of the trees built by successive replays

vars == <<pc, events, treasuryPriv, vKeyOk, leafHistory, leafHashes,
          ownedLeaves, tree, rootSame, merkleProof, proveInput, proof,
          publicSignals, verifyRes, calls, withdrawCalls, exitCode, err,
          roots>>

(***************************************************************************)
(* Leaves: masked points P and Q and a value v.  Points are elements of    *)
(* the multiplicative group mod 5, a secret alpha owns a leaf iff          *)
(* Q = P * alpha.                                                          *)
(***************************************************************************)
GroupMod == 5
Points == {1, 2}
Secrets == {2, 3}
Values == {1}

ScalarMul(P, alpha) == (P * alpha) % GroupMod

SolLeaves == {[P |-> p, Q |-> ScalarMul(p, a), v |-> w] :
                 p \in Points, a \in Secrets, w \in Values}

RECURSIVE SeqsUpTo(_, _)
SeqsUpTo(S, n) ==
    IF n = 0 THEN {<<>>}
    ELSE LET shorter == SeqsUpTo(S, n - 1)
         IN  shorter \cup {Append(s, x) : s \in {t \in shorter : Len(t) = n - 1}, x \in S}

\* Leaf.fromSol: the contract's tuple as a Leaf object
fromSol(lf) == [P |-> lf.P, Q |-> lf.Q, v |-> lf.v]

\* Leaf.poseidonHash: one hash value per leaf, injective on the leaves used
poseidonHash(lf) == (lf.P * 25 + lf.Q * 5 + lf.v) % HashMod

\* Leaf.checkQDerivation: the ownership relation P * alpha = Q
checkQDerivation(lf, priv) == ScalarMul(lf.P, priv) = lf.Q

\* Leaf.base10: the leaf's fields as decimal strings
base10(lf) == [P |-> lf.P, Q |-> lf.Q, v |-> lf.v]

\* hashLeftRight of the tree: a two-to-one hash, not symmetric
hashLeftRight(l, r) == (3 * l + 5 * r + 1) % HashMod

(***************************************************************************)
(* IncrementalQuinTree(TREE_DEPTH, NOTHING_UP_MY_SLEEVE, 2): an            *)
(* append-only binary hash tree of fixed depth whose unfilled positions    *)
(* hold the empty value.                                                   *)
(***************************************************************************)
Levels == 0 .. (TREE_DEPTH - 1)

\* zeros[0 .. n]: the hashes of the empty subtrees of height 0 .. n
RECURSIVE ZerosUpTo(_)
ZerosUpTo(n) ==
    IF n = 0 THEN <<NOTHING_UP_MY_SLEEVE>>
    ELSE LET below == ZerosUpTo(n - 1)
         IN  Append(below, hashLeftRight(below[n], below[n]))

ZerosTable == ZerosUpTo(TREE_DEPTH)

\* zeros[l]: the hash of an empty subtree of height l
Zeros[l \in 0 .. TREE_DEPTH] == ZerosTable[l + 1]

\* new IncrementalQuinTree(TREE_DEPTH, NOTHING_UP_MY_SLEEVE, 2)
NewTree == [leaves |-> <<>>,
            nextIndex |-> 0,
            filledSubtrees |-> [l \in Levels |-> Zeros[l]],
            root |-> Zeros[TREE_DEPTH]]

\* idx >> l
RECURSIVE Shift(_, _)
Shift(idx, l) == IF l = 0 \/ idx = 0 THEN idx ELSE Shift(idx \div 2, l - 1)

\* the hashes on the way up from the leaf lh at position t.nextIndex, of
\* heights 0 .. n: each is combined with the empty value on its right or
\* with the filled subtree on its left
RECURSIVE InsertPath(_, _, _)
InsertPath(t, lh, n) ==
    IF n = 0 THEN <<lh>>
    ELSE LET below == InsertPath(t, lh, n - 1)
         IN  Append(below,
                    IF Shift(t.nextIndex, n - 1) % 2 = 0
                    THEN hashLeftRight(below[n], Zeros[n - 1])
                    ELSE hashLeftRight(t.filledSubtrees[n - 1], below[n]))

\* tree.insert(lh): the leaf goes to position nextIndex and the hashes on
\* its way to the root are recomputed
insert(t, lh) ==
    LET cur == InsertPath(t, lh, TREE_DEPTH)
    IN  [leaves |-> Append(t.leaves, lh),
         nextIndex |-> t.nextIndex + 1,
         filledSubtrees |-> [l \in Levels |->
                                IF Shift(t.nextIndex, l) % 2 = 0
                                THEN cur[l + 1] ELSE t.filledSubtrees[l]],
         root |-> cur[TREE_DEPTH + 1]]

RECURSIVE InsertAll(_, _)
InsertAll(t, lhs) ==
    IF lhs = <<>> THEN t ELSE InsertAll(insert(t, Head(lhs)), Tail(lhs))

\* number of non-empty nodes at level l of a tree with n leaves
RECURSIVE CountAt(_, _)
CountAt(n, l) ==
    IF l = 0 \/ n <= 1 THEN n ELSE CountAt((n + 1) \div 2, l - 1)

\* hash of node idx at level l, from the leaves
RECURSIVE Node(_, _, _)
Node(leaves, l, idx) ==
    IF idx >= CountAt(Len(leaves), l) THEN Zeros[l]
    ELSE IF l = 0 THEN leaves[idx + 1]
    ELSE hashLeftRight(Node(leaves, l - 1, 2 * idx),
                       Node(leaves, l - 1, 2 * idx + 1))

Sibling(idx) == IF idx % 2 = 0 THEN idx + 1 ELSE idx - 1

\* merkleProof of a call that did not produce one
NoPath == [pathElements |-> <<>>, indices |-> <<>>]

\* tree.genMerklePath(index) for an inserted index: per level, the sibling
\* hash and the position (0 left, 1 right) of the node on the path
genMerklePath(t, index) ==
    [pathElements |-> [l \in 1 .. TREE_DEPTH |->
                          Node(t.leaves, l - 1, Sibling(Shift(index, l - 1)))],
     indices |-> [l \in 1 .. TREE_DEPTH |-> Shift(index, l - 1) % 2]]

\* genMerklePath throws for an index that is negative or not yet inserted
PathIndexInRange(t, index) == index >= 0 /\ index < t.nextIndex

\* leaf-to-root recomputation along a path
RECURSIVE RecomputeUpTo(_, _, _)
RecomputeUpTo(lh, path, n) ==
    IF n = 0 THEN lh
    ELSE LET below == RecomputeUpTo(lh, path, n - 1)
         IN  IF path.indices[n] = 0
             THEN hashLeftRight(below, path.pathElements[n])
             ELSE hashLeftRight(path.pathElements[n], below)

RecomputeRoot(lh, path) == RecomputeUpTo(lh, path, Len(path.pathElements))

(***************************************************************************)
(* The contract: NewLeaf events in emission order and root().              *)
(***************************************************************************)
EventLeaves == [i \in 1 .. Len(events) |-> fromSol(events[i])]
EventHashes == [i \in 1 .. Len(events) |-> poseidonHash(fromSol(events[i]))]

\* privateTreasury.root(): the root of the contract's own tree
ContractRoot == InsertAll(NewTree, EventHashes).root

(***************************************************************************)
(* groth16 with the verif-manager circuit.                                 *)
(***************************************************************************)
\* constraints of the circuit: ownership of the leaf and its inclusion
\* under root at leafIndex
CircuitSatisfied(input) ==
    /\ ScalarMul(input.P, input.treasuryPriv) = input.Q
    /\ Len(input.pathElements) = TREE_DEPTH
    /\ Len(input.pathIndex) = TREE_DEPTH
    /\ RecomputeRoot(poseidonHash([P |-> input.P, Q |-> input.Q, v |-> input.v]),
                     [pathElements |-> input.pathElements,
                      indices |-> input.pathIndex]) = input.root

NoSignals == [root |-> 0, leafIndex |-> undefined, v |-> 0, P |-> 0, Q |-> 0]
NoProof == [signals |-> NoSignals, made |-> FALSE]
NoInput == [v |-> 0, root |-> 0, leafIndex |-> undefined, P |-> 0, Q |-> 0,
            treasuryPriv |-> 0, pathIndex |-> <<>>, pathElements |-> <<>>]

\* groth16.fullProve: the public signals are outputs of the circuit
fullProveSignals(input) ==
    [root |-> input.root, leafIndex |-> input.leafIndex, v |-> input.v,
     P |-> input.P, Q |-> input.Q]

fullProveProof(input) == [signals |-> fullProveSignals(input), made |-> TRUE]

\* groth16.verify(vKey, pubSigs, prf)
verify(keyOk, pubSigs, prf) == keyOk /\ prf.made /\ prf.signals = pubSigs

(***************************************************************************)
(* The functions of the script.                                            *)
(***************************************************************************)
\* arr[i] of a JavaScript array (0-based); undefined out of range
InRange(arr, i) == i >= 0 /\ i < Len(arr)
At(arr, i) == IF InRange(arr, i) THEN arr[i + 1] ELSE undefined

RECURSIVE reduceOwned(_, _, _)
reduceOwned(hist, i, a) ==
    IF i >= Len(hist) THEN a
    ELSE reduceOwned(hist, i + 1,
                     IF checkQDerivation(hist[i + 1], treasuryPriv)
                     THEN Append(a, i) ELSE a)

\* the scan with the position counted from 1
checkLeafOwnership_oneBased(hist) ==
    LET r == reduceOwned(hist, 0, <<>>)
    IN  [k \in 1 .. Len(r) |-> r[k] + 1]

checkLeafOwnership(hist) == reduceOwned(hist, 0, <<>>)

RECURSIVE Reverse(_)
Reverse(q) == IF q = <<>> THEN <<>> ELSE Append(Reverse(Tail(q)), Head(q))

\* the leaves inserted last to first
reconstructMerkleTree_reversed(lhs) == InsertAll(NewTree, Reverse(lhs))

\* the leaves inserted into the tree of the previous call
reconstructMerkleTree_reuse(lhs) == InsertAll(tree, lhs)

\* the tree built by reconstructMerkleTree
reconstructMerkleTree(lhs) == InsertAll(NewTree, lhs)

(***************************************************************************)
(* The main routine, one action per awaited call.                          *)
(***************************************************************************)
Histories == SeqsUpTo(SolLeaves, MaxHistory)

InitLocals ==
    /\ leafHistory = <<>>
    /\ leafHashes = <<>>
    /\ ownedLeaves = <<>>
    /\ tree = NewTree
    /\ rootSame = "none"
    /\ merkleProof = NoPath
    /\ proveInput = NoInput
    /\ proof = NoProof
    /\ publicSignals = NoSignals
    /\ verifyRes = "none"
    /\ calls = <<>>
    /\ withdrawCalls = <<>>
    /\ exitCode = "running"
    /\ err = "none"
    /\ roots = <<>>

Init ==
    /\ pc = "buildPoseidon"
    /\ events \in Histories
    /\ treasuryPriv \in Secrets
    /\ vKeyOk \in BOOLEAN
    /\ InitLocals

env == <<treasuryPriv, vKeyOk>>

\* a rejected await in the async main routine: nothing after it runs
Rejected(by) ==
    /\ pc' = "rejected"
    /\ exitCode' = "unhandledRejection"
    /\ err' = by

\* line 189
BuildPoseidon ==
    /\ pc = "buildPoseidon"
    /\ pc' = "getDepositHistory"
    /\ calls' = Append(calls, "buildPoseidon")
    /\ UNCHANGED <<events, env, leafHistory, leafHashes, ownedLeaves, tree,
                   rootSame, merkleProof, proveInput, proof, publicSignals,
                   verifyRes, withdrawCalls, exitCode, err, roots>>

\* getDepositHistory with the rejection caught and an empty history returned
GetDepositHistory_swallow ==
    /\ pc = "getDepositHistory"
    /\ calls' = calls \o <<"getDepositHistory", "queryFilter">>
    /\ \E ok \in BOOLEAN :
          /\ leafHistory' = IF ok THEN EventLeaves ELSE <<>>
          /\ leafHashes' = IF ok
                           THEN [i \in 1 .. Len(EventLeaves) |->
                                    poseidonHash(EventLeaves[i])]
                           ELSE <<>>
          /\ err' = IF ok THEN err ELSE "queryFilter"
    /\ pc' = "checkLeafOwnership"
    /\ UNCHANGED <<events, env, ownedLeaves, tree, rootSame, merkleProof,
                   proveInput, proof, publicSignals, verifyRes, withdrawCalls,
                   exitCode, roots>>

\* getDepositHistory returning the hashes last to first
GetDepositHistory_hashesReversed ==
    /\ pc = "getDepositHistory"
    /\ calls' = calls \o <<"getDepositHistory", "queryFilter">>
    /\ \E ok \in BOOLEAN :
          IF ok
          THEN /\ leafHistory' = EventLeaves
               /\ leafHashes' = Reverse([i \in 1 .. Len(EventLeaves) |->
                                            poseidonHash(EventLeaves[i])])
               /\ pc' = "checkLeafOwnership"
               /\ UNCHANGED <<exitCode, err>>
          ELSE /\ Rejected("queryFilter")
               /\ UNCHANGED <<leafHistory, leafHashes>>
    /\ UNCHANGED <<events, env, ownedLeaves, tree, rootSame, merkleProof,
                   proveInput, proof, publicSignals, verifyRes, withdrawCalls,
                   roots>>

\* line 190: getDepositHistory; queryFilter resolves or rejects
GetDepositHistory ==
    /\ pc = "getDepositHistory"
    /\ calls' = calls \o <<"getDepositHistory", "queryFilter">>
    /\ \E ok \in BOOLEAN :
          IF ok
          THEN /\ leafHistory' = EventLeaves
               /\ leafHashes' = [i \in 1 .. Len(EventLeaves) |->
                                    poseidonHash(EventLeaves[i])]
               /\ pc' = "checkLeafOwnership"
               /\ UNCHANGED <<exitCode, err>>
          ELSE /\ Rejected("queryFilter")
               /\ UNCHANGED <<leafHistory, leafHashes>>
    /\ UNCHANGED <<events, env, ownedLeaves, tree, rootSame, merkleProof,
                   proveInput, proof, publicSignals, verifyRes, withdrawCalls,
                   roots>>

\* the scan fetching the events from the contract itself
CheckLeafOwnership_refetch ==
    /\ pc = "checkLeafOwnership"
    /\ calls' = calls \o <<"checkLeafOwnership", "queryFilter">>
    /\ ownedLeaves' = checkLeafOwnership(EventLeaves)
    /\ pc' = "reconstructMerkleTree"
    /\ UNCHANGED <<events, env, leafHistory, leafHashes, tree, rootSame,
                   merkleProof, proveInput, proof, publicSignals, verifyRes,
                   withdrawCalls, exitCode, err, roots>>

\* line 191
CheckLeafOwnership ==
    /\ pc = "checkLeafOwnership"
    /\ calls' = Append(calls, "checkLeafOwnership")
    /\ ownedLeaves' = checkLeafOwnership(leafHistory)
    /\ pc' = "reconstructMerkleTree"
    /\ UNCHANGED <<events, env, leafHistory, leafHashes, tree, rootSame,
                   merkleProof, proveInput, proof, publicSignals, verifyRes,
                   withdrawCalls, exitCode, err, roots>>

\* line 192: reconstructMerkleTree; the comparison with the contract's root
\* is logged, root() resolves or rejects
ReconstructMerkleTree ==
    /\ pc = "reconstructMerkleTree"
    /\ calls' = calls \o <<"reconstructMerkleTree", "root">>
    /\ tree' = reconstructMerkleTree(leafHashes)
    /\ roots' = Append(roots, tree'.root)
    /\ \E ok \in BOOLEAN :
          IF ok
          THEN /\ rootSame' = IF tree'.root = ContractRoot
                              THEN "true" ELSE "false"
               /\ pc' = "genMerklePath"
               /\ UNCHANGED <<exitCode, err>>
          ELSE /\ Rejected("root")
               /\ UNCHANGED rootSame
    /\ UNCHANGED <<events, env, leafHistory, leafHashes, ownedLeaves,
                   merkleProof, proveInput, proof, publicSignals, verifyRes,
                   withdrawCalls>>

\* line 193: tree.genMerklePath(ownedLeaves[LEAF_IDX]).  For undefined the
\* library either throws or returns a path of no use.
GenMerklePath ==
    /\ pc = "genMerklePath"
    /\ calls' = Append(calls, "genMerklePath")
    /\ LET idx == At(ownedLeaves, LEAF_IDX)
       IN  IF idx # undefined /\ PathIndexInRange(tree, idx)
           THEN /\ merkleProof' = genMerklePath(tree, idx)
                /\ pc' = "genGroth16Proof"
                /\ UNCHANGED <<exitCode, err>>
           ELSE \E throws \in BOOLEAN :
                  IF throws \/ idx # undefined
                  THEN Rejected("genMerklePath") /\ UNCHANGED merkleProof
                  ELSE /\ merkleProof' = NoPath
                       /\ pc' = "genGroth16Proof"
                       /\ UNCHANGED <<exitCode, err>>
    /\ UNCHANGED <<events, env, leafHistory, leafHashes, ownedLeaves, tree,
                   rootSame, proveInput, proof, publicSignals, verifyRes,
                   withdrawCalls, roots>>

\* the object handed to groth16.fullProve, lines 95-104
witnessInput(lf, lfIdx, root, priv, inclusionProof) ==
    [v |-> base10(lf).v,
     root |-> root,
     leafIndex |-> lfIdx,
     P |-> base10(lf).P,
     Q |-> base10(lf).Q,
     treasuryPriv |-> priv,
     pathIndex |-> inclusionProof.indices,
     pathElements |-> inclusionProof.pathElements]

\* genGroth16Proof handed the root the contract reports instead of tree.root
GenGroth16Proof_ledgerRoot ==
    /\ pc = "genGroth16Proof"
    /\ LET idx == At(ownedLeaves, LEAF_IDX)
       IN  IF ~InRange(leafHistory, idx)
           THEN /\ calls' = Append(calls, "genGroth16Proof")
                /\ Rejected("base10")
                /\ UNCHANGED <<proveInput, proof, publicSignals>>
           ELSE LET input == witnessInput(At(leafHistory, idx), idx,
                                          ContractRoot, treasuryPriv,
                                          merkleProof)
                IN  /\ calls' = calls \o <<"genGroth16Proof", "fullProve">>
                    /\ proveInput' = input
                    /\ \E ok \in BOOLEAN :
                          IF ok /\ CircuitSatisfied(input)
                          THEN /\ proof' = fullProveProof(input)
                               /\ publicSignals' = fullProveSignals(input)
                               /\ pc' = "proveSanityCheck"
                               /\ UNCHANGED <<exitCode, err>>
                          ELSE /\ Rejected("fullProve")
                               /\ UNCHANGED <<proof, publicSignals>>
    /\ UNCHANGED <<events, env, leafHistory, leafHashes, ownedLeaves, tree,
                   rootSame, merkleProof, verifyRes, withdrawCalls, roots>>

\* lines 194-200: genGroth16Proof.  lf.base10() throws on undefined;
\* fullProve rejects when the witness does not satisfy the circuit or the
\* engine fails.
GenGroth16Proof ==
    /\ pc = "genGroth16Proof"
    /\ LET idx == At(ownedLeaves, LEAF_IDX)
       IN  IF ~InRange(leafHistory, idx)
           THEN /\ calls' = Append(calls, "genGroth16Proof")
                /\ Rejected("base10")
                /\ UNCHANGED <<proveInput, proof, publicSignals>>
           ELSE LET input == witnessInput(At(leafHistory, idx), idx, tree.root,
                                          treasuryPriv, merkleProof)
                IN  /\ calls' = calls \o <<"genGroth16Proof", "fullProve">>
                    /\ proveInput' = input
                    /\ \E ok \in BOOLEAN :
                          IF ok /\ CircuitSatisfied(input)
                          THEN /\ proof' = fullProveProof(input)
                               /\ publicSignals' = fullProveSignals(input)
                               /\ pc' = "proveSanityCheck"
                               /\ UNCHANGED <<exitCode, err>>
                          ELSE /\ Rejected("fullProve")
                               /\ UNCHANGED <<proof, publicSignals>>
    /\ UNCHANGED <<events, env, leafHistory, leafHashes, ownedLeaves, tree,
                   rootSame, merkleProof, verifyRes, withdrawCalls, roots>>

\* line 201 with the proof built again when the check fails
ProveSanityCheck_proveAgain ==
    /\ pc = "proveSanityCheck"
    /\ calls' = calls \o <<"proveSanityCheck", "verify">>
    /\ verifyRes' = IF verify(vKeyOk, publicSignals, proof)
                    THEN "true" ELSE "false"
    /\ pc' = IF verifyRes' = "true" THEN "exit" ELSE "genGroth16Proof"
    /\ UNCHANGED <<events, env, leafHistory, leafHashes, ownedLeaves, tree,
                   rootSame, merkleProof, proveInput, proof, publicSignals,
                   withdrawCalls, exitCode, err, roots>>

\* line 201: proveSanityCheck logs the result of groth16.verify and returns
ProveSanityCheck ==
    /\ pc = "proveSanityCheck"
    /\ calls' = calls \o <<"proveSanityCheck", "verify">>
    /\ verifyRes' = IF verify(vKeyOk, publicSignals, proof)
                    THEN "true" ELSE "false"
    /\ pc' = "exit"
    /\ UNCHANGED <<events, env, leafHistory, leafHashes, ownedLeaves, tree,
                   rootSame, merkleProof, proveInput, proof, publicSignals,
                   withdrawCalls, exitCode, err, roots>>

\* lines 202-203 with the call of sendProofTx active
Exit_withSubmit ==
    /\ pc = "exit"
    /\ calls' = calls \o <<"sendProofTx", "getBalance", "exportCallDataGroth16",
                           "withdraw", "getBalance", "process.exit">>
    /\ withdrawCalls' = Append(withdrawCalls,
                               [leafIdx |-> LEAF_IDX,
                                calldata |-> [a |-> <<>>, b |-> <<>>,
                                              c |-> <<>>, input |-> <<>>],
                                reverted |-> FALSE])
    /\ exitCode' = "0"
    /\ pc' = "exited"
    /\ UNCHANGED <<events, env, leafHistory, leafHashes, ownedLeaves, tree,
                   rootSame, merkleProof, proveInput, proof, publicSignals,
                   verifyRes, err, roots>>

\* lines 202-203: the call of sendProofTx is commented out; process.exit(0)
Exit ==
    /\ pc = "exit"
    /\ calls' = Append(calls, "process.exit")
    /\ exitCode' = "0"
    /\ pc' = "exited"
    /\ UNCHANGED <<events, env, leafHistory, leafHashes, ownedLeaves, tree,
                   rootSame, merkleProof, proveInput, proof, publicSignals,
                   verifyRes, withdrawCalls, err, roots>>

\* a third party deposits while the script runs: the contract emits NewLeaf
Deposit ==
    /\ pc \notin {"exited", "rejected"}
    /\ Len(events) < MaxHistory
    /\ \E lf \in SolLeaves : events' = Append(events, lf)
    /\ UNCHANGED <<pc, env, leafHistory, leafHashes, ownedLeaves, tree,
                   rootSame, merkleProof, proveInput, proof, publicSignals,
                   verifyRes, calls, withdrawCalls, exitCode, err, roots>>

Next ==
    \/ BuildPoseidon
    \/ GetDepositHistory
    \/ CheckLeafOwnership
    \/ ReconstructMerkleTree
    \/ GenMerklePath
    \/ GenGroth16Proof
    \/ ProveSanityCheck
    \/ Exit
    \/ Deposit

Spec == Init /\ [][Next]_vars

(***************************************************************************)
(* sendProofTx, lines 138-161: balance read, formatting of the call data,  *)
(* the withdraw transaction, balance read.  Each await resolves or         *)
(* rejects; a rejection ends the call.                                     *)
(***************************************************************************)
\* Utils.exportCallDataGroth16: the proof as (a, b, c) and the signals as
\* the input vector in circuit order
exportCallDataGroth16(prf, pubSigs) ==
    [a |-> <<prf.signals.root, prf.signals.leafIndex>>,
     b |-> <<<<prf.signals.v, prf.signals.P>>, <<prf.signals.Q, 0>>>>,
     c |-> <<IF prf.made THEN 1 ELSE 0, 0>>,
     input |-> <<pubSigs.root, pubSigs.leafIndex, pubSigs.v, pubSigs.P,
                 pubSigs.Q>>]

SendOutcomes == {"getBalanceBefore", "withdraw", "getBalanceAfter", "none"}

\* sendProofTx sending the transaction again after a rejected withdraw
sendProofTx_retry(prf, pubSigs) ==
    \E rejects \in SendOutcomes :
        LET call == [leafIdx |-> LEAF_IDX,
                     calldata |-> exportCallDataGroth16(prf, pubSigs),
                     reverted |-> (rejects = "withdraw")]
        IN  /\ calls' = calls \o
                  (IF rejects = "getBalanceBefore"
                   THEN <<"sendProofTx", "getBalance">>
                   ELSE IF rejects = "withdraw"
                   THEN <<"sendProofTx", "getBalance", "exportCallDataGroth16",
                          "withdraw", "withdraw">>
                   ELSE <<"sendProofTx", "getBalance", "exportCallDataGroth16",
                          "withdraw", "getBalance">>)
            /\ withdrawCalls' =
                  IF rejects = "getBalanceBefore" THEN withdrawCalls
                  ELSE IF rejects = "withdraw"
                  THEN withdrawCalls \o <<call, call>>
                  ELSE Append(withdrawCalls, call)
            /\ err' = rejects
            /\ pc' = IF rejects = "none" THEN "sent" ELSE "rejected"

\* sendProofTx passing the leaf index of the public signals to withdraw
sendProofTx_provedIndex(prf, pubSigs) ==
    \E rejects \in SendOutcomes :
        /\ calls' = calls \o
              (IF rejects = "getBalanceBefore"
               THEN <<"sendProofTx", "getBalance">>
               ELSE IF rejects = "withdraw"
               THEN <<"sendProofTx", "getBalance", "exportCallDataGroth16",
                      "withdraw">>
               ELSE <<"sendProofTx", "getBalance", "exportCallDataGroth16",
                      "withdraw", "getBalance">>)
        /\ withdrawCalls' =
              IF rejects = "getBalanceBefore" THEN withdrawCalls
              ELSE Append(withdrawCalls,
                          [leafIdx |-> pubSigs.leafIndex,
                           calldata |-> exportCallDataGroth16(prf, pubSigs),
                           reverted |-> (rejects = "withdraw")])
        /\ err' = rejects
        /\ pc' = IF rejects = "none" THEN "sent" ELSE "rejected"

sendProofTx(prf, pubSigs) ==
    \E rejects \in SendOutcomes :
        /\ calls' = calls \o
              (IF rejects = "getBalanceBefore"
               THEN <<"sendProofTx", "getBalance">>
               ELSE IF rejects = "withdraw"
               THEN <<"sendProofTx", "getBalance", "exportCallDataGroth16",
                      "withdraw">>
               ELSE <<"sendProofTx", "getBalance", "exportCallDataGroth16",
                      "withdraw", "getBalance">>)
        /\ withdrawCalls' =
              IF rejects = "getBalanceBefore" THEN withdrawCalls
              ELSE Append(withdrawCalls,
                          [leafIdx |-> LEAF_IDX,
                           calldata |-> exportCallDataGroth16(prf, pubSigs),
                           reverted |-> (rejects = "withdraw")])
        /\ err' = rejects
        /\ pc' = IF rejects = "none" THEN "sent" ELSE "rejected"

\* sendProofTx called with the proof and signals the main routine holds
\* after proveSanityCheck
SendProofTx ==
    /\ pc = "sendProofTx"
    /\ sendProofTx(proof, publicSignals)
    /\ UNCHANGED <<events, env, leafHistory, leafHashes, ownedLeaves, tree,
                   rootSame, merkleProof, proveInput, proof, publicSignals,
                   verifyRes, exitCode, roots>>

\* the state of the main routine after line 201, at least LEAF_IDX + 1
\* leaves owned
InitSubmit ==
    /\ pc = "sendProofTx"
    /\ events \in Histories
    /\ treasuryPriv \in Secrets
    /\ vKeyOk \in BOOLEAN
    /\ leafHistory = EventLeaves
    /\ leafHashes = [i \in 1 .. Len(EventLeaves) |-> poseidonHash(EventLeaves[i])]
    /\ ownedLeaves = checkLeafOwnership(leafHistory)
    /\ InRange(ownedLeaves, LEAF_IDX)
    /\ tree = reconstructMerkleTree(leafHashes)
    /\ rootSame = "true"
    /\ merkleProof = genMerklePath(tree, At(ownedLeaves, LEAF_IDX))
    /\ proveInput = witnessInput(At(leafHistory, At(ownedLeaves, LEAF_IDX)),
                                 At(ownedLeaves, LEAF_IDX), tree.root,
                                 treasuryPriv, merkleProof)
    /\ proof = fullProveProof(proveInput)
    /\ publicSignals = fullProveSignals(proveInput)
    /\ verifyRes = IF verify(vKeyOk, publicSignals, proof)
                   THEN "true" ELSE "false"
    /\ calls = <<>>
    /\ withdrawCalls = <<>>
    /\ exitCode = "running"
    /\ err = "none"
    /\ roots = <<tree.root>>

NextSubmit == SendProofTx

SpecSubmit == InitSubmit /\ [][NextSubmit]_vars

(***************************************************************************)
(* reconstructMerkleTree called repeatedly on one sequence of leaf hashes. *)
(***************************************************************************)
Replay ==
    /\ pc = "replay"
    /\ Len(roots) < MaxReplays
    /\ calls' = calls \o <<"reconstructMerkleTree", "root">>
    /\ tree' = reconstructMerkleTree(leafHashes)
    /\ roots' = Append(roots, tree'.root)
    /\ \E ok \in BOOLEAN :
          IF ok
          THEN /\ rootSame' = IF tree'.root = ContractRoot
                              THEN "true" ELSE "false"
               /\ UNCHANGED <<pc, exitCode, err>>
          ELSE /\ Rejected("root")
               /\ UNCHANGED rootSame
    /\ UNCHANGED <<events, env, leafHistory, leafHashes, ownedLeaves,
                   merkleProof, proveInput, proof, publicSignals, verifyRes,
                   withdrawCalls>>

InitReplay ==
    /\ pc = "replay"
    /\ events \in Histories
    /\ treasuryPriv \in Secrets
    /\ vKeyOk \in BOOLEAN
    /\ leafHistory = EventLeaves
    /\ leafHashes = [i \in 1 .. Len(EventLeaves) |-> poseidonHash(EventLeaves[i])]
    /\ ownedLeaves = <<>>
    /\ tree = NewTree
    /\ rootSame = "none"
    /\ merkleProof = NoPath
    /\ proveInput = NoInput
    /\ proof = NoProof
    /\ publicSignals = NoSignals
    /\ verifyRes = "none"
    /\ calls = <<>>
    /\ withdrawCalls = <<>>
    /\ exitCode = "running"
    /\ err = "none"
    /\ roots = <<>>

NextReplay == Replay

SpecReplay == InitReplay /\ [][NextReplay]_vars

(***************************************************************************)
(* Properties.                                                             *)
(***************************************************************************)
Called(f) == \E k \in DOMAIN calls : calls[k] = f
CountCalls(f) == Cardinality({k \in DOMAIN calls : calls[k] = f})

\* C1: sendProofTx (the withdraw call) is never invoked in a run in which
\* groth16.verify returned false.
C1_NoSubmitAfterFailedVerify ==
    verifyRes = "false" =>
        /\ ~Called("sendProofTx")
        /\ ~Called("withdraw")
        /\ withdrawCalls = <<>>

C1_Witness ==
    /\ pc = "exited"
    /\ verifyRes = "false"
    /\ Called("verify")
    /\ withdrawCalls = <<>>

\* C2 (as claimed): when the root of the reconstructed tree differs from the
\* root the contract reports, groth16.fullProve is never called.
C2_NoProvingOnRootMismatch ==
    rootSame = "false" => ~Called("fullProve")

\* C3 (as claimed): when the ownership scan returns no index, neither
\* genMerklePath nor genGroth16Proof is invoked.
C3_NoProofWorkWithoutOwnedLeaf ==
    (Called("checkLeafOwnership") /\ ownedLeaves = <<>>) =>
        (~Called("genMerklePath") /\ ~Called("genGroth16Proof"))

\* C4: after the scan, ownedLeaves holds exactly the indices of the leaves
\* the secret owns, strictly ascending; the history is what was fetched (a
\* prefix of the contract's events); an empty history gives no index.
OwnedIndices ==
    {i \in 0 .. (Len(leafHistory) - 1) :
        ScalarMul(leafHistory[i + 1].P, treasuryPriv) = leafHistory[i + 1].Q}

C4_OwnershipScanExact ==
    Called("checkLeafOwnership") =>
        /\ {ownedLeaves[k] : k \in DOMAIN ownedLeaves} = OwnedIndices
        /\ \A k \in 1 .. (Len(ownedLeaves) - 1) :
              ownedLeaves[k] < ownedLeaves[k + 1]
        /\ Len(leafHistory) <= Len(events)
        /\ leafHistory = SubSeq(EventLeaves, 1, Len(leafHistory))
        /\ (leafHistory = <<>> => ownedLeaves = <<>>)

C4_Witness ==
    /\ pc = "reconstructMerkleTree"
    /\ Len(leafHistory) = 3
    /\ ownedLeaves = <<0, 2>>

\* C5 (as claimed): a run in which groth16.verify returned false does not
\* end with exit status 0.
C5_FailedVerifyIsNotSuccess ==
    verifyRes = "false" => exitCode # "0"

\* C6: for the tree built from leafHashes and every inserted index i,
\* recomputing from leaf hash i along genMerklePath(i) gives the tree's root.
C6_PathRecomputesRoot ==
    Called("reconstructMerkleTree") =>
        /\ tree.nextIndex = Len(leafHashes)
        /\ \A i \in 0 .. (Len(leafHashes) - 1) :
              RecomputeRoot(leafHashes[i + 1], genMerklePath(tree, i)) = tree.root

C6_Witness ==
    /\ pc = "genGroth16Proof"
    /\ tree.nextIndex = 3
    /\ leafHashes[1] # leafHashes[2]
    /\ leafHashes[2] # leafHashes[3]
    /\ InRange(ownedLeaves, LEAF_IDX)
    /\ RecomputeRoot(leafHashes[At(ownedLeaves, LEAF_IDX) + 1], merkleProof) = tree.root

C8_ReadFailureIsFatal ==
    err = "queryFilter" =>
        /\ calls = <<"buildPoseidon", "getDepositHistory", "queryFilter">>
        /\ leafHistory = <<>>
        /\ leafHashes = <<>>
        /\ ownedLeaves = <<>>
        /\ tree = NewTree
        /\ proof = NoProof
        /\ verifyRes = "none"
        /\ withdrawCalls = <<>>

C8_Witness ==
    /\ err = "queryFilter"
    /\ pc = "rejected"
    /\ Len(events) >= 2

C10_SelectionFailsBeforeProofWork ==
    (Called("genMerklePath") \/ Called("genGroth16Proof")) =>
        At(ownedLeaves, LEAF_IDX) # undefined

\* C11: the fetched records and hashes have equal length, hash i is the
\* hash of record i, both follow the contract's emission order, and the
\* tree holds every one of those hashes once, hash i at leaf position i.
C11_HashesFollowRecords ==
    Called("getDepositHistory") =>
        /\ Len(leafHashes) = Len(leafHistory)
        /\ \A i \in 1 .. Len(leafHistory) :
              leafHashes[i] = poseidonHash(leafHistory[i])
        /\ Len(leafHistory) <= Len(events)
        /\ \A i \in 1 .. Len(leafHistory) : leafHistory[i] = fromSol(events[i])
        /\ Called("reconstructMerkleTree") =>
              /\ tree.nextIndex = Len(leafHashes)
              /\ tree.leaves = leafHashes

C11_Witness ==
    /\ pc = "genMerklePath"
    /\ Len(leafHashes) = 3
    /\ leafHashes[1] # leafHashes[2]
    /\ leafHashes[2] # leafHashes[3]
    /\ tree.leaves = leafHashes

\* C12: the stages entered so far are an initial part of the fixed order
\* Ledger Reader, Ownership Scanner, Accumulator, Proof Builder, Local
\* Verifier, Submitter: each at most once, none before its predecessor.
StageOrder == <<"getDepositHistory", "checkLeafOwnership",
                "reconstructMerkleTree", "genGroth16Proof",
                "proveSanityCheck", "sendProofTx">>

IsStage(f) == \E k \in DOMAIN StageOrder : StageOrder[k] = f

StagesEntered == SelectSeq(calls, IsStage)

C12_StagesInFixedOrder ==
    /\ Len(StagesEntered) <= Len(StageOrder)
    /\ \A k \in DOMAIN StagesEntered : StagesEntered[k] = StageOrder[k]
    /\ Called("genMerklePath") =>
          (Called("reconstructMerkleTree") /\ CountCalls("genMerklePath") = 1)
    /\ (Called("genMerklePath") /\ Called("genGroth16Proof")) =>
          \A i, j \in DOMAIN calls :
              (calls[i] = "genMerklePath" /\ calls[j] = "genGroth16Proof") => i < j

C12_Witness ==
    /\ pc = "exited"
    /\ StagesEntered = SubSeq(StageOrder, 1, 5)

\* calls of the contract and the chain: reads and writes
LedgerReads == {"queryFilter", "root", "getBalance"}
LedgerWrites == {"withdraw"}

\* the stage in which call k was made
StageAt(k) ==
    LET before == {i \in 1 .. k : IsStage(calls[i])}
    IN  IF before = {} THEN "none"
        ELSE calls[CHOOSE i \in before : \A j \in before : j <= i]

\* C13 (as claimed): ledger reads are made only in the Ledger Reader and
\* ledger writes only in the Submitter.
C13_OnlyReaderReads ==
    \A k \in DOMAIN calls :
        /\ calls[k] \in LedgerReads => StageAt(k) = "getDepositHistory"
        /\ calls[k] \in LedgerWrites => StageAt(k) = "sendProofTx"

\* C13 (amended): the Ownership Scanner, the Proof Builder and the Local
\* Verifier make no ledger call; the Accumulator stage makes one ledger
\* read, root(), and no write; ledger writes are made only in the
\* Submitter, and a run has made none.
C13_ReadsAndWritesByStage ==
    /\ \A k \in DOMAIN calls :
          /\ calls[k] \in LedgerReads \cup LedgerWrites =>
                StageAt(k) \in {"getDepositHistory", "reconstructMerkleTree",
                                "sendProofTx"}
          /\ calls[k] = "queryFilter" => StageAt(k) = "getDepositHistory"
          /\ calls[k] = "root" => StageAt(k) = "reconstructMerkleTree"
          /\ calls[k] \in LedgerWrites \cup {"getBalance"} =>
                StageAt(k) = "sendProofTx"
    /\ CountCalls("root") <= 1
    /\ CountCalls("queryFilter") <= 1
    /\ Called("reconstructMerkleTree") => Called("root")
    /\ CountCalls("withdraw") = Len(withdrawCalls)
    /\ withdrawCalls = <<>>

C13_Witness ==
    /\ pc = "exited"
    /\ Called("checkLeafOwnership")
    /\ Called("verify")
    /\ \E k \in DOMAIN calls :
          calls[k] = "root" /\ StageAt(k) = "reconstructMerkleTree"

\* C14: a withdraw call made by sendProofTx carries the constant LEAF_IDX
\* as leaf index, while the proof and its signals are for index
\* ownedLeaves[LEAF_IDX]; the two agree exactly when
\* ownedLeaves[LEAF_IDX] = LEAF_IDX.
C14_SubmittedIndexIsConstant ==
    \A k \in DOMAIN withdrawCalls :
        /\ withdrawCalls[k].leafIdx = LEAF_IDX
        /\ publicSignals.leafIndex = At(ownedLeaves, LEAF_IDX)
        /\ withdrawCalls[k].calldata.input[2] = At(ownedLeaves, LEAF_IDX)
        /\ (withdrawCalls[k].leafIdx = publicSignals.leafIndex) <=>
              (At(ownedLeaves, LEAF_IDX) = LEAF_IDX)

C14_Witness ==
    /\ pc = "sent"
    /\ Len(withdrawCalls) = 1
    /\ ownedLeaves = <<0, 2>>
    /\ publicSignals.leafIndex = 2
    /\ withdrawCalls[1].leafIdx = 1

\* C15: when genGroth16Proof hands its input to fullProve with at least
\* LEAF_IDX + 1 leaves owned, the record, the leaf index and the path are
\* those of j = ownedLeaves[LEAF_IDX], j is an owned index below the number
\* of inserted leaves, and the root is the root of the tree built from all
\* fetched leaf hashes.
C15_ProofInputsConsistent ==
    (Called("fullProve") /\ InRange(ownedLeaves, LEAF_IDX)) =>
        LET j == At(ownedLeaves, LEAF_IDX)
        IN  /\ proveInput.leafIndex = j
            /\ j \in OwnedIndices
            /\ j < tree.nextIndex
            /\ tree.nextIndex = Len(leafHistory)
            /\ proveInput.P = leafHistory[j + 1].P
            /\ proveInput.Q = leafHistory[j + 1].Q
            /\ proveInput.v = leafHistory[j + 1].v
            /\ proveInput.treasuryPriv = treasuryPriv
            /\ proveInput.pathElements = genMerklePath(tree, j).pathElements
            /\ proveInput.pathIndex = genMerklePath(tree, j).indices
            /\ proveInput.root = tree.root
            /\ proveInput.root = Node(leafHashes, TREE_DEPTH, 0)

C15_Witness ==
    /\ Called("fullProve")
    /\ ownedLeaves = <<0, 1>>
    /\ proveInput.leafIndex = 1
    /\ rootSame = "false"
    /\ proveInput.root = tree.root

====
